---- MODULE Spec2Model ----
(***************************************************************************)
(* Tic-tac-toe agents of BKE (src/_agent.py): the heuristic                *)
(* OptimalEvaluationAgent, the tabular MLAgent and the RandomAgent, over   *)
(* the rules engine _core (is_free, is_winner, is_board_full, can_win,     *)
(* opponent).                                                              *)
(*                                                                         *)
(* A board is a function 0..8 -> {"X", "O", EMPTY}, indexed as the Python  *)
(* list is.  Table values are floats in the code; every value the model    *)
(* reaches is a dyadic rational k / Unit, which Python computes exactly,   *)
(* and is kept as the integer k.                                           *)
(***************************************************************************)
EXTENDS Integers, Sequences, FiniteSets, TLC

VARIABLES
    agent,      \* the class of the agent object the caller holds
    memory,     \* MLAgent._memory: board key -> value (in units of 1/Unit)
    symbol,     \* MLAgent._symbol: None until the first move call
    learning,   \* MLAgent.learning
    epsilon,    \* MLAgent._epsilon, in halves
    alpha,      \* MLAgent._alpha, in halves
    calls,      \* number of MLAgent.move calls made so far
    own_only,   \* history: every MLAgent.move call so far passed the bound
                \* symbol and a board its opponent had not already won
    call        \* the latest move call: agent, arguments and outcome

vars == <<agent, memory, symbol, learning, epsilon, alpha, calls, own_only, call>>

-----------------------------------------------------------------------------
(* Bounds *)

\* MLAgent.move calls in a behaviour.
MaxCalls == 3

-----------------------------------------------------------------------------
(* Rules engine (_core) and types (_typing) *)

Symbols == {"X", "O"}

EMPTY == "_"

None == "None"

Cells == 0 .. 8

AllBoards == [Cells -> Symbols \cup {EMPTY}]

Lines == { {0, 1, 2}, {3, 4, 5}, {6, 7, 8},
           {0, 3, 6}, {1, 4, 7}, {2, 5, 8},
           {0, 4, 8}, {2, 4, 6} }

opponent == [s \in Symbols |-> IF s = "X" THEN "O" ELSE "X"]

is_free(board, i) == board[i] = EMPTY

is_winner(board, s) == \E line \in Lines : \A i \in line : board[i] = s

is_board_full(board) == \A i \in Cells : ~ is_free(board, i)

can_win(board, s) ==
    \E i \in Cells :
        /\ is_free(board, i)
        /\ is_winner([board EXCEPT ![i] = s], s)

-----------------------------------------------------------------------------
(* Agent *)

explore_move(board, s, move) == [board EXCEPT ![move] = s]

AllCellsFrom(board, i) == [k \in 1 .. 9 - i |-> i + k - 1]

\* The legal moves, in the increasing order range(9) yields them.
RECURSIVE FreeFrom(_, _)
FreeFrom(board, i) ==
    IF i > 8 THEN << >>
    ELSE IF is_free(board, i) THEN <<i>> \o FreeFrom(board, i + 1)
    ELSE FreeFrom(board, i + 1)

\* A sequence of <<move, resulting board>>.
get_moves_and_boards(board, s) ==
    LET moves == FreeFrom(board, 0)
    IN  [k \in 1 .. Len(moves) |-> <<moves[k], explore_move(board, s, moves[k])>>]

-----------------------------------------------------------------------------
(* OptimalEvaluationAgent *)

WinScore == 1000

ThreatScore == 500

CenterWeight == 4

CornerWeight == 2

EdgeWeight == 1

Weight(i) ==
    IF i = 4 THEN CenterWeight
    ELSE IF i \in {0, 2, 6, 8} THEN CornerWeight
    ELSE EdgeWeight

RECURSIVE Positional(_, _, _)
Positional(board, my_symbol, i) ==
    IF i > 8 THEN 0
    ELSE (IF board[i] = my_symbol THEN Weight(i) ELSE 0)
         + Positional(board, my_symbol, i + 1)

EvaluateBlockFirst(board, my_symbol, opponent_symbol) ==
    IF can_win(board, opponent_symbol) THEN 0
    ELSE IF is_winner(board, my_symbol) THEN WinScore
    ELSE IF can_win(board, my_symbol) THEN ThreatScore
    ELSE Positional(board, my_symbol, 0)

EvaluateThreatFirst(board, my_symbol, opponent_symbol) ==
    IF is_winner(board, my_symbol) THEN WinScore
    ELSE IF can_win(board, my_symbol) THEN ThreatScore
    ELSE IF can_win(board, opponent_symbol) THEN 0
    ELSE Positional(board, my_symbol, 0)

OptimalEvaluationAgent_evaluate(board, my_symbol, opponent_symbol) ==
    IF is_winner(board, my_symbol) THEN WinScore
    ELSE IF can_win(board, opponent_symbol) THEN 0
    ELSE IF can_win(board, my_symbol) THEN ThreatScore
    ELSE Positional(board, my_symbol, 0)

RECURSIVE InsertByScore(_, _), SortByScoreFrom(_, _, _)
RECURSIVE InsertDesc(_, _), SortDescFrom(_, _, _)

\* Python's order on the tuples (score, move).
TupleLess(a, b) == a[1] < b[1] \/ (a[1] = b[1] /\ a[2] < b[2])

InsertByScore(e, sorted) ==
    IF sorted = << >> THEN <<e>>
    ELSE IF Head(sorted)[1] < e[1] THEN <<e>> \o sorted
    ELSE <<Head(sorted)>> \o InsertByScore(e, Tail(sorted))

SortByScoreFrom(list, k, sorted) ==
    IF k > Len(list) THEN sorted
    ELSE SortByScoreFrom(list, k + 1, InsertByScore(list[k], sorted))

SortByScoreOnly(list) == SortByScoreFrom(list, 1, << >>)

\* list.sort(reverse=True): the elements in decreasing order, equal elements
\* in their original order.
InsertDesc(e, sorted) ==
    IF sorted = << >> THEN <<e>>
    ELSE IF TupleLess(Head(sorted), e) THEN <<e>> \o sorted
    ELSE <<Head(sorted)>> \o InsertDesc(e, Tail(sorted))

SortDescFrom(list, k, sorted) ==
    IF k > Len(list) THEN sorted
    ELSE SortDescFrom(list, k + 1, InsertDesc(list[k], sorted))

SortReverse(list) == SortDescFrom(list, 1, << >>)

\* The sorted list of (score, move); move() returns evaluations[0][1] and
\* fails with IndexError when the list is empty.
EvaluationAgent_evaluations(board, my_symbol) ==
    LET opponent_symbol == opponent[my_symbol]
        moves_scenarios == get_moves_and_boards(board, my_symbol)
        evaluations ==
            [k \in 1 .. Len(moves_scenarios) |->
                <<OptimalEvaluationAgent_evaluate(moves_scenarios[k][2],
                                                  my_symbol, opponent_symbol),
                  moves_scenarios[k][1]>>]
    IN  SortReverse(evaluations)


\* EvaluationAgent.move: what the call yields, <<outcome, move>>.
EvaluationAgent_move(board, my_symbol) ==
    LET evaluations == EvaluationAgent_evaluations(board, my_symbol)
    IN  IF Len(evaluations) = 0 THEN <<"IndexError", -1>>
        ELSE <<"ok", evaluations[1][2]>>

-----------------------------------------------------------------------------
(* RandomAgent *)

\* RandomAgent.move: the outcomes random.choice can yield; random.choice of
\* an empty list raises IndexError.
RandomAgent_move(board, my_symbol) ==
    LET moves_scenarios == get_moves_and_boards(board, my_symbol)
    IN  IF Len(moves_scenarios) = 0 THEN {<<"IndexError", -1>>}
        ELSE {<<"ok", moves_scenarios[k][1]>> : k \in 1 .. Len(moves_scenarios)}

-----------------------------------------------------------------------------
(* MLAgent *)

\* One table unit: values are multiples of 1/Unit.
Unit == 2 ^ MaxCalls

\* epsilon and alpha in halves: 0, 0.5 and 1.0 (the constructor admits [0, 1]).
Halves == {0, 1, 2}

RECURSIVE JoinFrom(_, _)
JoinFrom(board, i) ==
    IF i > 8 THEN "" ELSE board[i] \o JoinFrom(board, i + 1)

MLAgent_hash_board(board) == JoinFrom(board, 0)

MLAgent_value_from_memory(mem, board) ==
    LET key == MLAgent_hash_board(board)
    IN  IF key \in DOMAIN mem THEN mem[key] ELSE 0

StoreOnly(mem, board, value) ==
    [k \in {MLAgent_hash_board(board)} |-> value]

MLAgent_store_value(mem, board, value) ==
    LET key == MLAgent_hash_board(board)
    IN  [k \in DOMAIN mem \cup {key} |-> IF k = key THEN value ELSE mem[k]]

EvaluateForOpponent(self_symbol, board) ==
    IF is_winner(board, opponent[self_symbol]) THEN 1
    ELSE IF is_winner(board, self_symbol) THEN -1
    ELSE 0

MLAgent_evaluate(self_symbol, board) ==
    IF is_winner(board, self_symbol) THEN 1
    ELSE IF is_winner(board, opponent[self_symbol]) THEN -1
    ELSE 0

SetMax(S) == CHOOSE x \in S : \A y \in S : y <= x

SetMin(S) == CHOOSE x \in S : \A y \in S : x <= y

\* random.random() < epsilon, drawn only when learning: random() is in
\* [0, 1), so the draw never succeeds for 0 and always succeeds for 1.
ExploreDraws(lrn, eps) ==
    IF ~ lrn THEN {FALSE}
    ELSE IF eps = 0 THEN {FALSE}
    ELSE IF eps = 2 THEN {TRUE}
    ELSE BOOLEAN

MinmaxAlwaysMax(mem, self_symbol, explore, board, s) ==
    LET moves_scenarios == get_moves_and_boards(board, s)
        K == 1 .. Len(moves_scenarios)
        value(k) == MLAgent_value_from_memory(mem, moves_scenarios[k][2])
    IN  IF K = {} THEN {}
        ELSE IF explore THEN {moves_scenarios[k][1] : k \in K}
        ELSE {moves_scenarios[k][1] : k \in {j \in K : value(j) = SetMax({value(i) : i \in K})}}

MinmaxDefaultsToZero(mem, self_symbol, explore, board, s) ==
    LET moves_scenarios == get_moves_and_boards(board, s)
        K == 1 .. Len(moves_scenarios)
        value(k) == MLAgent_value_from_memory(mem, moves_scenarios[k][2])
    IN  IF K = {} THEN {0}
        ELSE IF explore THEN {moves_scenarios[k][1] : k \in K}
        ELSE LET values == {value(k) : k \in K}
                 best_or_worst_value ==
                     IF s = self_symbol THEN SetMax(values) ELSE SetMin(values)
             IN  {moves_scenarios[k][1] : k \in {j \in K : value(j) = best_or_worst_value}}

\* MLAgent._minmax: the moves random.choice(options) can return.  With no
\* legal move the set is empty: max/min of no values raises ValueError, and
\* on the exploration branch random.choice([]) raises IndexError.
MLAgent_minmax(mem, self_symbol, explore, board, s) ==
    LET moves_scenarios == get_moves_and_boards(board, s)
        K == 1 .. Len(moves_scenarios)
        value(k) == MLAgent_value_from_memory(mem, moves_scenarios[k][2])
    IN  IF K = {} THEN {}
        ELSE IF explore THEN {moves_scenarios[k][1] : k \in K}
        ELSE LET values == {value(k) : k \in K}
                 best_or_worst_value ==
                     IF s = self_symbol THEN SetMax(values) ELSE SetMin(values)
             IN  {moves_scenarios[k][1] : k \in {j \in K : value(j) = best_or_worst_value}}

NewValueOverwrites(a, mem_value, evaluation, next_mem_value) ==
    (a * (evaluation * Unit + next_mem_value)) \div 2

\* mem_value + alpha * (evaluation + next_mem_value), alpha = a / 2.
MLAgent_new_value(a, mem_value, evaluation, next_mem_value) ==
    mem_value + (a * (evaluation * Unit + next_mem_value)) \div 2

\* "If there would still be a move": the guard of the simulated reply.
HasReply(next_board, my_symbol) ==
    /\ ~ is_winner(next_board, my_symbol)
    /\ ~ is_winner(next_board, opponent[my_symbol])
    /\ ~ is_board_full(next_board)

\* The table after the learning step of move, given the board after the
\* chosen move and the value read for the simulated reply (0 without one).
MLAgent_learn(mem, self_symbol, a, next_board, next_mem_value) ==
    LET evaluation == MLAgent_evaluate(self_symbol, next_board)
        mem_value  == MLAgent_value_from_memory(mem, next_board)
        new_value  == MLAgent_new_value(a, mem_value, evaluation, next_mem_value)
    IN  MLAgent_store_value(mem, next_board, new_value)


-----------------------------------------------------------------------------
(* The boards handed to the agents *)

\* O X X / X O X / O _ _ : cell 8 wins for either symbol, cell 7 for neither.
BaseBoard ==
    [i \in Cells |->
        IF i \in {1, 2, 3, 5} THEN "X" ELSE IF i \in {0, 4, 6} THEN "O" ELSE EMPTY]

\* The cells of BaseBoard that the boards handed to the agents vary.
OpenCells == {7, 8}

\* BaseBoard with its open cells filled in every way.
Boards ==
    { [i \in Cells |-> IF i \in OpenCells THEN f[i] ELSE BaseBoard[i]] :
        f \in [OpenCells -> Symbols \cup {EMPTY}] }

-----------------------------------------------------------------------------
(* State machine *)

\* The record of a move call.  bound is MLAgent._symbol as the call found
\* it; explored tells whether the exploration draw of the selection
\* succeeded; next_move is the simulated reply (-1 without one); reward is
\* the local evaluation of the learning step.
CallRecord(class, board, s, outcome, move) ==
    [agent |-> class, board |-> board, symbol |-> s, outcome |-> outcome,
     move |-> move, learning |-> FALSE, explored |-> FALSE, bound |-> None,
     next_move |-> -1, reward |-> 0]

MLCallRecord(board, s, outcome, move, explored, next_move, reward) ==
    [agent |-> "MLAgent", board |-> board, symbol |-> s, outcome |-> outcome,
     move |-> move, learning |-> learning, explored |-> explored,
     bound |-> symbol, next_move |-> next_move, reward |-> reward]

NoCall == CallRecord("none", BaseBoard, "X", "none", -1)

AgentClasses == {"OptimalEvaluationAgent", "MLAgent", "RandomAgent"}

\* The state after construction of an agent; the MLAgent fields are those of
\* MLAgent(epsilon, alpha) and are left alone by the other two classes.
Constructed ==
    /\ agent \in AgentClasses
    /\ memory = << >>
    /\ symbol = None
    /\ learning = TRUE
    /\ epsilon \in (IF agent = "MLAgent" THEN Halves ELSE {0})
    /\ alpha \in (IF agent = "MLAgent" THEN Halves ELSE {0})
    /\ calls = 0
    /\ own_only = TRUE

Init ==
    /\ Constructed
    /\ call = NoCall

MLUnchanged == UNCHANGED <<agent, memory, symbol, learning, epsilon, alpha, calls, own_only>>

\* OptimalEvaluationAgent().move(board, my_symbol)
OptimalMove(board, my_symbol) ==
    LET r == EvaluationAgent_move(board, my_symbol)
    IN  /\ agent = "OptimalEvaluationAgent"
        /\ call' = CallRecord("OptimalEvaluationAgent", board, my_symbol, r[1], r[2])
        /\ MLUnchanged

\* RandomAgent().move(board, my_symbol)
RandomMove(board, my_symbol) ==
    /\ agent = "RandomAgent"
    /\ \E r \in RandomAgent_move(board, my_symbol) :
           call' = CallRecord("RandomAgent", board, my_symbol, r[1], r[2])
    /\ MLUnchanged

\* agent.learning = v, as the training and validation harness sets it.
SetLearning(v) ==
    /\ agent = "MLAgent"
    /\ learning # v
    /\ learning' = v
    /\ UNCHANGED <<agent, memory, symbol, epsilon, alpha, calls, own_only, call>>

\* MLAgent.move(board, my_symbol)
MLAgent_move(board, my_symbol) ==
    LET self_symbol == IF symbol = None THEN my_symbol ELSE symbol
    IN  /\ agent = "MLAgent"
        /\ calls < MaxCalls
        /\ calls' = calls + 1
        /\ symbol' = self_symbol
        /\ own_only' = (/\ own_only
                        /\ my_symbol = self_symbol
                        /\ ~ is_winner(board, opponent[self_symbol]))
        /\ UNCHANGED <<agent, learning, epsilon, alpha>>
        /\ \E explore \in ExploreDraws(learning, epsilon) :
             LET options == MLAgent_minmax(memory, self_symbol, explore, board, my_symbol)
             IN  IF options = {}
                 THEN /\ memory' = memory
                      /\ call' = MLCallRecord(board, my_symbol,
                                     IF explore THEN "IndexError" ELSE "ValueError",
                                     -1, explore, -1, 0)
                 ELSE \E move_ \in options :
                      LET next_board == explore_move(board, my_symbol, move_)
                          evaluation == MLAgent_evaluate(self_symbol, next_board)
                      IN  IF ~ learning
                          THEN /\ memory' = memory
                               /\ call' = MLCallRecord(board, my_symbol, "ok", move_,
                                                       explore, -1, 0)
                          ELSE IF ~ HasReply(next_board, my_symbol)
                          THEN /\ memory' = MLAgent_learn(memory, self_symbol, alpha,
                                                          next_board, 0)
                               /\ call' = MLCallRecord(board, my_symbol, "ok", move_,
                                                       explore, -1, evaluation)
                          ELSE \E explore2 \in ExploreDraws(learning, epsilon) :
                               \E next_move \in MLAgent_minmax(memory, self_symbol, explore2,
                                                   next_board, opponent[my_symbol]) :
                                  LET next_next_board ==
                                          explore_move(next_board, opponent[my_symbol],
                                                       next_move)
                                      next_mem_value ==
                                          MLAgent_value_from_memory(memory, next_next_board)
                                  IN  /\ memory' = MLAgent_learn(memory, self_symbol, alpha,
                                                                 next_board, next_mem_value)
                                      /\ call' = MLCallRecord(board, my_symbol, "ok", move_,
                                                       explore, next_move, evaluation)

\* The caller takes the outcome of the call it made; calls are synchronous,
\* one at a time.
TakeResult ==
    /\ call # NoCall
    /\ call' = NoCall
    /\ MLUnchanged

Idle == call = NoCall

Next ==
    \/ Idle /\ \E board \in Boards, s \in Symbols : OptimalMove(board, s)
    \/ Idle /\ \E board \in Boards, s \in Symbols : RandomMove(board, s)
    \/ Idle /\ \E board \in Boards, s \in Symbols : MLAgent_move(board, s)
    \/ Idle /\ \E v \in BOOLEAN : SetLearning(v)
    \/ TakeResult

Spec == Init /\ [][Next]_vars

\* The heuristic agent as a function of its arguments, over every board:
\* a call is pending from the start and then returns.
InitEval ==
    /\ Constructed
    /\ agent = "OptimalEvaluationAgent"
    /\ \E board \in AllBoards, s \in Symbols :
           call = CallRecord("OptimalEvaluationAgent", board, s, "pending", -1)

OptimalReturn ==
    /\ call.outcome = "pending"
    /\ OptimalMove(call.board, call.symbol)

NextEval == OptimalReturn

SpecEval == InitEval /\ [][NextEval]_vars

-----------------------------------------------------------------------------
(* Properties *)

Returned == call.outcome = "ok"

Raised == call.outcome \in {"IndexError", "ValueError"}

LegalMoves(board) == {i \in Cells : is_free(board, i)}

\* The board after the latest call's arguments and move m.
After(c, m) == explore_move(c.board, c.symbol, m)

\* C1: on a board with a free cell every agent's move returns an index in
\* 0..8 that is free in the board it was given.
C1_MoveTargetsFreeCell ==
    (call.agent \in AgentClasses /\ call.outcome # "pending")
        => /\ (~ is_board_full(call.board)) => Returned
           /\ Returned => /\ call.move \in Cells
                          /\ is_free(call.board, call.move)

C1_Witness ==
    /\ call.agent = "MLAgent"
    /\ Returned
    /\ call.bound # None
    /\ call.explored
    /\ memory # << >>
    /\ Cardinality(LegalMoves(call.board)) = 2
    /\ is_free(call.board, call.move)

\* C2: move on a board without a free cell raises for every agent, returns
\* no index, and a failed MLAgent.move leaves the value table as it was.
C2_FullBoardRaises ==
    /\ [](is_board_full(call.board) /\ call.agent \in AgentClasses
             => Raised /\ call.move = -1)
    /\ [][(calls' = calls + 1 /\ is_board_full(call'.board))
             => memory' = memory]_vars

C2_Witness ==
    /\ call.agent = "MLAgent"
    /\ is_board_full(call.board)
    /\ call.explored
    /\ call.outcome = "IndexError"
    /\ memory # << >>

\* C3: once the MLAgent's symbol is bound, a move call passing the other
\* symbol is signalled as an error and returns no move.
C3_OtherSymbolSignalled ==
    (call.agent = "MLAgent" /\ call.bound # None /\ call.symbol # call.bound)
        => ~ Returned


\* The score the heuristic agent gives the latest call's move m.
Score(c, m) ==
    OptimalEvaluationAgent_evaluate(After(c, m), c.symbol, opponent[c.symbol])

Wins(c, m) == is_winner(After(c, m), c.symbol)

Safe(c, m) == ~ can_win(After(c, m), opponent[c.symbol])

\* C4: OptimalEvaluationAgent.move returns the legal move whose pair
\* (score of the resulting board, move) is the lexicographic maximum, so
\* among the moves of highest score the largest index.
C4_LexicographicMaximum ==
    (call.agent = "OptimalEvaluationAgent" /\ call.outcome # "pending"
        /\ ~ is_board_full(call.board))
        => /\ Returned
           /\ call.move \in LegalMoves(call.board)
           /\ \A m \in LegalMoves(call.board) :
                \/ Score(call, m) < Score(call, call.move)
                \/ Score(call, m) = Score(call, call.move) /\ m <= call.move

C4_Witness ==
    /\ call.agent = "OptimalEvaluationAgent"
    /\ Returned
    /\ \E m \in LegalMoves(call.board) :
           m < call.move /\ Score(call, m) = Score(call, call.move)
    /\ \E m \in LegalMoves(call.board) :
           m > call.move /\ Score(call, m) < Score(call, call.move)

\* X _ _ / _ X _ / _ _ _
DiagonalBoard == [i \in Cells |-> IF i \in {0, 4} THEN "X" ELSE EMPTY]

\* C5: when some legal move completes a line for the mover, the move
\* OptimalEvaluationAgent.move returns wins; on X _ _ / _ X _ / _ _ _ with X
\* to move it returns 8.
C5_TakesTheWin ==
    (call.agent = "OptimalEvaluationAgent" /\ call.outcome # "pending")
        => /\ (\E m \in LegalMoves(call.board) : Wins(call, m))
                => Returned /\ Wins(call, call.move)
           /\ (call.board = DiagonalBoard /\ call.symbol = "X")
                => Returned /\ call.move = 8

C5_Witness ==
    /\ call.agent = "OptimalEvaluationAgent"
    /\ call.board = DiagonalBoard
    /\ call.symbol = "X"
    /\ call.move = 8
    /\ Wins(call, 8)

\* C9: when no legal move wins at once and some legal move leaves the
\* opponent without a one-move win, OptimalEvaluationAgent.move returns such
\* a safe move: safe moves score at least 1, unsafe non-winning moves 0.
C9_BlocksWhenItCan ==
    (call.agent = "OptimalEvaluationAgent" /\ call.outcome # "pending"
        /\ (\A m \in LegalMoves(call.board) : ~ Wins(call, m))
        /\ (\E m \in LegalMoves(call.board) : Safe(call, m)))
        => /\ Returned
           /\ Safe(call, call.move)
           /\ \A m \in LegalMoves(call.board) :
                IF Safe(call, m) THEN Score(call, m) >= 1 ELSE Score(call, m) = 0

C9_Witness ==
    /\ call.agent = "OptimalEvaluationAgent"
    /\ Returned
    /\ \A m \in LegalMoves(call.board) : ~ Wins(call, m)
    /\ can_win(call.board, opponent[call.symbol])
    /\ ~ is_winner(call.board, opponent[call.symbol])
    /\ \E m \in LegalMoves(call.board) : ~ Safe(call, m)
    /\ Safe(call, call.move)


\* A step that is an MLAgent.move call.
MLCallStep == calls' = calls + 1

Value(mem, board) == IF MLAgent_hash_board(board) \in DOMAIN mem
                     THEN mem[MLAgent_hash_board(board)] ELSE 0

\* C6: with learning false a move call leaves the value table as it was;
\* with learning true a successful call writes the entry of the board after
\* the returned move and no other.
C6_TableFrame ==
    [][MLCallStep =>
         IF ~ learning THEN memory' = memory
         ELSE call'.outcome = "ok" =>
              LET key == MLAgent_hash_board(After(call', call'.move))
              IN  /\ DOMAIN memory' = DOMAIN memory \cup {key}
                  /\ \A k \in DOMAIN memory \ {key} : memory'[k] = memory[k]]_vars

C6_Witness ==
    /\ call.agent = "MLAgent"
    /\ Returned
    /\ call.learning
    /\ Cardinality(DOMAIN memory) = 2
    /\ \A k \in DOMAIN memory : memory[k] # 0

\* The reward of a board for the bound symbol self.
Reward(self, board) ==
    IF is_winner(board, self) THEN 1
    ELSE IF is_winner(board, opponent[self]) THEN -1
    ELSE 0

Terminal(board) ==
    \/ is_winner(board, "X")
    \/ is_winner(board, "O")
    \/ is_board_full(board)

\* C7: a learning call that returns m adds alpha * (reward + c) to the table
\* value of the board after m, with c the pre-call value of the board after
\* the simulated reply, or 0 when the board after m is won or full; the move
\* returned is the one selected on the pre-call table.
C7_UpdateRule ==
    [][(MLCallStep /\ learning /\ call'.outcome = "ok") =>
         LET next_board == After(call', call'.move)
             c == IF Terminal(next_board) THEN 0
                  ELSE Value(memory, explore_move(next_board,
                                 opponent[call'.symbol], call'.next_move))
         IN  /\ Terminal(next_board) <=> call'.next_move = -1
             /\ 2 * Value(memory', next_board)
                  = 2 * Value(memory, next_board)
                    + alpha * (Reward(symbol', next_board) * Unit + c)
             /\ call'.move \in MLAgent_minmax(memory, symbol', call'.explored,
                                              call'.board, call'.symbol)]_vars

C7_Witness ==
    /\ call.agent = "MLAgent"
    /\ Returned
    /\ call.learning
    /\ alpha = 1
    /\ call.next_move \in Cells
    /\ Value(memory, explore_move(After(call, call.move),
                                  opponent[call.symbol], call.next_move)) # 0
    /\ Value(memory, After(call, call.move)) # 0

\* The table values of the boards the legal moves of call c lead to.
MoveValues(mem, c) == {Value(mem, After(c, m)) : m \in LegalMoves(c.board)}

\* C8: when exploration does not fire (learning false, or epsilon 0) the
\* selected move leads to a board of maximal table value for the bound
\* symbol and of minimal table value for the other symbol; a single move
\* attaining the extreme is the one selected.
C8_Exploitation ==
    [][(MLCallStep /\ call'.outcome = "ok") =>
         /\ (~ learning \/ epsilon = 0) => ~ call'.explored
         /\ ~ call'.explored =>
              LET extreme == IF call'.symbol = symbol'
                             THEN SetMax(MoveValues(memory, call'))
                             ELSE SetMin(MoveValues(memory, call'))
              IN  /\ Value(memory, After(call', call'.move)) = extreme
                  /\ \A m \in LegalMoves(call'.board) :
                       (\A n \in LegalMoves(call'.board) \ {m} :
                            Value(memory, After(call', n)) # extreme)
                           => call'.move = m]_vars

C8_Witness ==
    /\ call.agent = "MLAgent"
    /\ Returned
    /\ ~ call.learning
    /\ epsilon = 1
    /\ call.symbol # symbol
    /\ \E m \in LegalMoves(call.board) :
           Value(memory, After(call, m)) > Value(memory, After(call, call.move))

\* C10: from an empty table, while every call passes the bound symbol and a
\* board its opponent has not already won, every reward is 0 or 1 and every
\* table entry is >= 0; a reward of -1 needs a call with the other symbol or
\* on a board the opponent has already won.
C10_NoNegativeValues ==
    /\ own_only => /\ call.reward \in {0, 1}
                   /\ \A k \in DOMAIN memory : memory[k] >= 0
    /\ call.reward = -1 => \/ call.symbol # symbol
                           \/ is_winner(call.board, opponent[symbol])

C10_Witness ==
    /\ own_only
    /\ calls = MaxCalls
    /\ call.reward = 1
    /\ \E k \in DOMAIN memory : memory[k] > Unit

====
